---- MODULE Spec2Model ----
(***************************************************************************)
(* azure-blob-size-checker: main.go.                                       *)
(*                                                                         *)
(* main parses the -accounts flag, obtains a credential, lets the operator *)
(* pick a subscription and then calls processAccount for every account in  *)
(* turn.  processAccount lists the account's containers page by page,      *)
(* starts one goroutine per container that pages through the container's   *)
(* blobs and sums their content lengths (getContainerSize), starts one     *)
(* more goroutine that waits for the WaitGroup and closes the results      *)
(* channel, and ranges over the channel printing one line per container    *)
(* and adding the sizes up.                                                *)
(*                                                                         *)
(* Sizes are Go int64 values.  They are counted here in units of 2^60      *)
(* bytes, so that the int64 range -2^63 .. 2^63-1 is -HalfRange ..         *)
(* HalfRange-1 units and an addition wraps exactly where the Go addition   *)
(* wraps.  Every content length of the model is a multiple of the unit.    *)
(*                                                                         *)
(* The storage backend, the credential provider and the operator are the   *)
(* environment.  What they answer is fixed in the initial state: for an    *)
(* account whether the client can be built, the pages of the container     *)
(* listing, the pages of every container's blob listing, and whether a     *)
(* listing ends with a fetch that fails; for the start-up whether the      *)
(* credential is obtained, what the subscription listing returns and what  *)
(* the operator selects.                                                   *)
(***************************************************************************)
EXTENDS Integers, Sequences, FiniteSets, TLC

VARIABLES
    accounts,        \* storageAccounts, each with what the backend answers for it
    startup,         \* what credential provider, resource manager and operator answer
    mainPc,          \* where main (and the processAccount it is in) stands
    acct,            \* index of the account of the for loop of main, 0 before it
    subscriptionID,  \* what selectSubscription returned, 0 before
    pass,            \* per account: the locals of its processAccount call
    workers,         \* per account: the per-container goroutines launched so far
    out,             \* the lines written to standard output
    log              \* the lines logged to the error stream

vars == <<accounts, startup, mainPc, acct, subscriptionID, pass, workers, out, log>>

----------------------------------------------------------------------------
(* Bounds of the inputs. *)

MaxAccounts == 2       \* accounts on the command line (SpecRun)
RunContainers == 1     \* containers of an account when there are several accounts
MaxContainers == 2     \* containers of an account
MaxListPages == 2      \* page fetches of a container listing
MaxBlobPages == 2      \* page fetches of a blob listing
MaxBlobs == 1          \* blobs on one page
MaxSubscriptions == 1  \* subscriptions the resource manager lists

(* int64 in units of 2^60 bytes: 2^63 bytes are HalfRange units. *)
HalfRange == 8

(* Content lengths the backend reports, in units: 0, 2^60 and 2^62 bytes. *)
Lengths == {0, 1, 4}

----------------------------------------------------------------------------
(* int64 arithmetic *)

Wrap64(x) == ((x + HalfRange) % (2 * HalfRange)) - HalfRange

Add64(x, y) == Wrap64(x + y)

(* for _, blob := range resp.Segment.BlobItems { totalSize += length } *)
RECURSIVE SumPage(_, _)
SumPage(total, page) ==
    IF page = << >> THEN total
    ELSE SumPage(Add64(total, Head(page)), Tail(page))

----------------------------------------------------------------------------
(* The pager of a listing.  A listing is [pages, fails]: the pages the     *)
(* backend serves, in order, and whether the fetch after the last of them  *)
(* fails.  More() holds while a fetch is left.                             *)

Fetches(listing) == Len(listing.pages) + (IF listing.fails THEN 1 ELSE 0)

More(listing, fetched) == fetched < Fetches(listing)

NextPageFails(listing, fetched) == listing.fails /\ fetched = Len(listing.pages)

----------------------------------------------------------------------------
(* The backends the initial state draws from. *)

SeqsUpTo(S, n) == UNION {[1..k -> S] : k \in 0..n}

RECURSIVE Flatten(_)
Flatten(pages) ==
    IF pages = << >> THEN << >> ELSE Head(pages) \o Flatten(Tail(pages))

Iota(n) == [i \in 1..n |-> i]

(* Container names are 1..n, listed in order over the pages. *)
ContainerPages(maxC, maxP) ==
    {p \in SeqsUpTo(SeqsUpTo(1..maxC, maxC), maxP) :
        Flatten(p) = Iota(Len(Flatten(p)))}

Listings(pageSets, maxP) ==
    {l \in [pages : pageSets, fails : BOOLEAN] :
        Fetches(l) >= 1 /\ Fetches(l) <= maxP}

BlobListings(maxP, maxB) == Listings(SeqsUpTo(SeqsUpTo(Lengths, maxB), maxP), maxP)

ContainerListings(maxC, maxP) == Listings(ContainerPages(maxC, maxP), maxP)

OnePage(items) == [pages |-> <<items>>, fails |-> FALSE]

Backend(l, b) == [clientErr |-> FALSE, listing |-> l, blobs |-> b]

NoClient == [clientErr |-> TRUE, listing |-> [pages |-> << >>, fails |-> TRUE],
             blobs |-> << >>]

(* One container, every blob listing within the bounds. *)
CalcBackends ==
    {Backend(OnePage(<<1>>), <<l>>) : l \in BlobListings(MaxBlobPages, MaxBlobs)}

(* Blob listings whose pages hold one blob of the given length each. *)
UniformListings(len) == Listings(SeqsUpTo({<<len>>}, MaxBlobPages), MaxBlobPages)

(* Up to maxC containers, listed on one page; the blobs of the account are *)
(* of one length, and every container has its own number of pages and its  *)
(* own failure.                                                            *)
WorkerBackends(maxC) ==
    UNION {{Backend(OnePage(Iota(n)), b) : b \in [1..n -> UniformListings(len)]} :
           n \in 0..maxC, len \in Lengths}

(* Every container listing within the bounds; every container holds one    *)
(* blob.                                                                   *)
ListingBackends ==
    {Backend(l, [c \in 1..Len(Flatten(l.pages)) |-> OnePage(<<1>>)]) :
        l \in ContainerListings(MaxContainers, MaxListPages)}

FetchFails == [pages |-> << >>, fails |-> TRUE]

(* An account of several: no client, a container listing that fails, or up *)
(* to RunContainers containers on one page, each with one page of one blob *)
(* or with a blob listing that fails.                                      *)
RunBackends ==
    {NoClient, Backend(FetchFails, << >>)}
        \cup UNION {{Backend(OnePage(Iota(n)), b) :
                        b \in [1..n -> {OnePage(<<1>>), FetchFails}]} :
                    n \in 0..RunContainers}

(* What start-up can meet: the credential, the subscription listing with   *)
(* its n subscriptions, and the operator's selection.                      *)
Startups ==
    [credErr : BOOLEAN, listErr : BOOLEAN, n : 0..MaxSubscriptions,
     scanErr : BOOLEAN, choice : 0..(MaxSubscriptions + 1)]

(* One subscription listed, and selected. *)
StartupOK ==
    [credErr |-> FALSE, listErr |-> FALSE, n |-> 1, scanErr |-> FALSE, choice |-> 1]

----------------------------------------------------------------------------
(* State after construction *)

NewPass == [containers |-> << >>, fetched |-> 0, containerList |-> << >>,
            spawned |-> 0, wg |-> 0, results |-> << >>, closed |-> FALSE,
            closer |-> "none", totalSize |-> 0]

InitWith(accts, starts) ==
    /\ accounts \in accts
    /\ startup \in starts
    /\ mainPc = "flags"
    /\ acct = 0
    /\ subscriptionID = 0
    /\ pass = [a \in 1..Len(accounts) |-> NewPass]
    /\ workers = [a \in 1..Len(accounts) |-> << >>]
    /\ out = << >>
    /\ log = {}

(* Every start-up with no account or an account without a client. *)
InitStartup == InitWith({<< >>, <<NoClient>>}, Startups)

(* One account. *)
Init ==
    \/ InitStartup
    \/ InitWith({<<b>> : b \in CalcBackends \cup WorkerBackends(MaxContainers)
                                \cup ListingBackends},
                {StartupOK})

(* Up to MaxAccounts accounts. *)
InitRun ==
    \/ InitStartup
    \/ InitWith(SeqsUpTo(RunBackends, MaxAccounts) \ {<< >>}, {StartupOK})

(* A line of output: its kind, the account, the container or subscription  *)
(* and the int64 that is printed.  The program prints bytesToGB of it with *)
(* two decimals; for the sizes that occur here, multiples of 2^60 bytes,   *)
(* the division by 2^30 is exact and different sizes give different text.  *)
Line(k, a, n, s) == [k |-> k, a |-> a, n |-> n, s |-> s]

----------------------------------------------------------------------------
(* main: start-up *)

Fatal(k) ==
    /\ mainPc' = "fatal"
    /\ log' = log \cup {Line(k, 0, 0, 0)}

(* flag.Parse and the check of the accounts flag *)
ParseFlags ==
    /\ mainPc = "flags"
    /\ IF accounts = << >>
       THEN Fatal("no accounts")
       ELSE mainPc' = "cred" /\ log' = log
    /\ UNCHANGED <<accounts, startup, acct, subscriptionID, pass, workers, out>>

(* azidentity.NewDefaultAzureCredential *)
ObtainCredential ==
    /\ mainPc = "cred"
    /\ IF startup.credErr THEN Fatal("credentials")
       ELSE mainPc' = "sub" /\ log' = log
    /\ UNCHANGED <<accounts, startup, acct, subscriptionID, pass, workers, out>>

(* The lines selectSubscription prints for n listed subscriptions. *)
SubscriptionLines(n) ==
    <<Line("available", 0, 0, 0)>>
        \o [i \in 1..n |-> Line("subscription", 0, i, 0)]
        \o <<Line("prompt", 0, 0, 0)>>

(* A check of the selection that forgets the upper end of the range. *)
InvalidChoiceNoUpper(s) == s.scanErr \/ s.choice < 1

(* if err != nil || choice < 1 || choice > len(subscriptions) *)
InvalidChoice(s) == s.scanErr \/ s.choice < 1 \/ s.choice > s.n

(* selectSubscription and what main does with its result: listErr is a     *)
(* failure of the client or of a page of the subscription listing, n the   *)
(* number of subscriptions listed, scanErr a selection that is no number.  *)
SelectSubscription ==
    /\ mainPc = "sub"
    /\ IF startup.listErr
       THEN /\ Fatal("subscription")
            /\ UNCHANGED <<out, subscriptionID>>
       ELSE IF InvalidChoice(startup)
       THEN /\ Fatal("subscription")
            /\ out' = out \o SubscriptionLines(startup.n)
            /\ UNCHANGED subscriptionID
       ELSE /\ subscriptionID' = startup.choice
            /\ out' = out \o SubscriptionLines(startup.n)
                          \o <<Line("using", 0, startup.choice, 0)>>
            /\ mainPc' = "loop"
            /\ log' = log
    /\ UNCHANGED <<accounts, startup, acct, pass, workers>>

(* for _, account := range storageAccounts *)
LoopNext ==
    /\ mainPc = "loop"
    /\ IF acct < Len(accounts)
       THEN /\ acct' = acct + 1
            /\ out' = Append(out, Line("processing", acct + 1, 0, 0))
            /\ mainPc' = "client"
       ELSE /\ mainPc' = "exit"
            /\ UNCHANGED <<acct, out>>
    /\ UNCHANGED <<accounts, startup, subscriptionID, pass, workers, log>>

(* fmt.Println() after processAccount has returned *)
Println ==
    /\ mainPc = "println"
    /\ out' = Append(out, Line("blank", acct, 0, 0))
    /\ mainPc' = "loop"
    /\ UNCHANGED <<accounts, startup, acct, subscriptionID, pass, workers, log>>

----------------------------------------------------------------------------
(* processAccount, up to the container list *)

(* A processAccount that ends the run when the client cannot be built. *)
NewClientFatal ==
    /\ mainPc = "client"
    /\ IF accounts[acct].clientErr
       THEN /\ log' = log \cup {Line("client", acct, 0, 0)}
            /\ mainPc' = "fatal"
       ELSE /\ mainPc' = "more"
            /\ log' = log
    /\ UNCHANGED <<accounts, startup, acct, subscriptionID, pass, workers, out>>

(* azblob.NewClient *)
NewClient ==
    /\ mainPc = "client"
    /\ IF accounts[acct].clientErr
       THEN /\ log' = log \cup {Line("client", acct, 0, 0)}
            /\ mainPc' = "println"
       ELSE /\ mainPc' = "more"
            /\ log' = log
    /\ UNCHANGED <<accounts, startup, acct, subscriptionID, pass, workers, out>>

(* listContainers: for pager.More().  When no page is left it returns the  *)
(* names and processAccount makes the results channel.                     *)
ListMore ==
    /\ mainPc = "more"
    /\ IF More(accounts[acct].listing, pass[acct].fetched)
       THEN /\ mainPc' = "next"
            /\ pass' = pass
       ELSE /\ mainPc' = "spawn"
            /\ pass' = [pass EXCEPT ![acct].containerList = pass[acct].containers]
    /\ UNCHANGED <<accounts, startup, acct, subscriptionID, workers, out, log>>

(* A listContainers that drops the error and goes on with what it has. *)
ListFetchIgnoresError(p) ==
    IF NextPageFails(accounts[acct].listing, p.fetched)
    THEN [err |-> FALSE, pass |-> [p EXCEPT !.fetched = @ + 1]]
    ELSE [err |-> FALSE,
          pass |-> [p EXCEPT !.containers =
                                 @ \o accounts[acct].listing.pages[p.fetched + 1],
                             !.fetched = @ + 1]]

(* listContainers: pager.NextPage and the loop over the page's items.  On  *)
(* an error it returns nil and processAccount logs and returns.            *)
ListFetch(p) ==
    IF NextPageFails(accounts[acct].listing, p.fetched)
    THEN [err |-> TRUE, pass |-> [p EXCEPT !.containerList = << >>]]
    ELSE [err |-> FALSE,
          pass |-> [p EXCEPT !.containers =
                                 @ \o accounts[acct].listing.pages[p.fetched + 1],
                             !.fetched = @ + 1]]

ListNextPage ==
    /\ mainPc = "next"
    /\ LET r == ListFetch(pass[acct]) IN
          /\ pass' = [pass EXCEPT ![acct] = r.pass]
          /\ IF r.err
             THEN /\ log' = log \cup {Line("list", acct, 0, 0)}
                  /\ mainPc' = "println"
             ELSE /\ mainPc' = "more"
                  /\ log' = log
    /\ UNCHANGED <<accounts, startup, acct, subscriptionID, workers, out>>

----------------------------------------------------------------------------
(* processAccount: the goroutines *)

(* A result named after the loop variable as the goroutines share it: the  *)
(* last container of the list.                                             *)
ContainerSizeSharedName(name, size) ==
    [Name |-> pass[acct].containerList[Len(pass[acct].containerList)],
     Size |-> size]

ContainerSize(name, size) == [Name |-> name, Size |-> size]

NewWorker == [pc |-> "more", fetched |-> 0, totalSize |-> 0, err |-> FALSE]

(* for _, containerName := range containerList { wg.Add(1); go func ... } *)
Spawn ==
    /\ mainPc = "spawn"
    /\ LET p == pass[acct] IN
       IF p.spawned < Len(p.containerList)
       THEN /\ pass' = [pass EXCEPT ![acct].wg = @ + 1, ![acct].spawned = @ + 1]
            /\ workers' = [workers EXCEPT ![acct] =
                              @ @@ (p.containerList[p.spawned + 1] :> NewWorker)]
            /\ mainPc' = mainPc
       ELSE /\ mainPc' = "closer"
            /\ UNCHANGED <<pass, workers>>
    /\ UNCHANGED <<accounts, startup, acct, subscriptionID, out, log>>

(* go func() { wg.Wait(); close(results) }() *)
StartCloser ==
    /\ mainPc = "closer"
    /\ pass' = [pass EXCEPT ![acct].closer = "wait"]
    /\ mainPc' = "recv"
    /\ UNCHANGED <<accounts, startup, acct, subscriptionID, workers, out, log>>

Running == mainPc \notin {"fatal", "panic", "exit"}

(* A Wait that returns only after some goroutine has been waited for. *)
WaitReturnsAfterDone(a) == pass[a].wg = 0 /\ workers[a] # << >>

(* A Wait that does not wait for the counter. *)
WaitReturnsAtOnce(a) == TRUE

(* A Wait that also returns at the first goroutine that failed. *)
WaitReturnsOnError(a) ==
    pass[a].wg = 0 \/ \E c \in DOMAIN workers[a] : workers[a][c].err

(* wg.Wait() returns when the counter is zero. *)
WaitReturns(a) == pass[a].wg = 0

CloserWait(a) ==
    /\ Running
    /\ pass[a].closer = "wait"
    /\ WaitReturns(a)
    /\ pass' = [pass EXCEPT ![a].closer = "close"]
    /\ UNCHANGED <<accounts, startup, mainPc, acct, subscriptionID, workers, out, log>>

(* A closer that comes back to its close after it has closed. *)
CloserCloseAgain(a) ==
    /\ Running
    /\ pass[a].closer = "close"
    /\ pass' = [pass EXCEPT ![a].closed = TRUE]
    /\ mainPc' = IF pass[a].closed THEN "panic" ELSE mainPc
    /\ UNCHANGED <<accounts, startup, acct, subscriptionID, workers, out, log>>

(* close(results); closing a closed channel panics. *)
CloserClose(a) ==
    /\ Running
    /\ pass[a].closer = "close"
    /\ pass' = [pass EXCEPT ![a].closer = "done", ![a].closed = TRUE]
    /\ mainPc' = IF pass[a].closed THEN "panic" ELSE mainPc
    /\ UNCHANGED <<accounts, startup, acct, subscriptionID, workers, out, log>>

(* getContainerSize: for pager.More(); with no page left it returns        *)
(* totalSize, nil and the goroutine goes on to send.                       *)
WorkerMore(a, c) ==
    /\ Running
    /\ workers[a][c].pc = "more"
    /\ workers' = [workers EXCEPT ![a][c].pc =
                      IF More(accounts[a].blobs[c], workers[a][c].fetched)
                      THEN "next" ELSE "send"]
    /\ UNCHANGED <<accounts, startup, mainPc, acct, subscriptionID, pass, out, log>>

(* A getContainerSize that goes back to the head of its loop after a       *)
(* failed fetch, and so fetches the page again.                            *)
BlobFetchRetries(listing, w) ==
    IF NextPageFails(listing, w.fetched)
    THEN [w EXCEPT !.err = TRUE, !.pc = "more"]
    ELSE [w EXCEPT !.totalSize = SumPage(@, listing.pages[w.fetched + 1]),
                   !.fetched = @ + 1,
                   !.pc = "more"]

(* A goroutine that returns on the error without its wg.Done(). *)
BlobFetchNoDone(listing, w) ==
    IF NextPageFails(listing, w.fetched)
    THEN [w EXCEPT !.err = TRUE, !.pc = "done"]
    ELSE [w EXCEPT !.totalSize = SumPage(@, listing.pages[w.fetched + 1]),
                   !.fetched = @ + 1,
                   !.pc = "more"]

(* A goroutine that drops the error and goes on to send the 0 that came    *)
(* with it.                                                                *)
BlobFetchSendsZero(listing, w) ==
    IF NextPageFails(listing, w.fetched)
    THEN [w EXCEPT !.err = TRUE, !.totalSize = 0, !.pc = "send"]
    ELSE [w EXCEPT !.totalSize = SumPage(@, listing.pages[w.fetched + 1]),
                   !.fetched = @ + 1,
                   !.pc = "more"]

(* A goroutine that logs the error and goes on to send what it has. *)
BlobFetchNoReturn(listing, w) ==
    IF NextPageFails(listing, w.fetched)
    THEN [w EXCEPT !.err = TRUE, !.pc = "send"]
    ELSE [w EXCEPT !.totalSize = SumPage(@, listing.pages[w.fetched + 1]),
                   !.fetched = @ + 1,
                   !.pc = "more"]

(* getContainerSize: pager.NextPage and the loop over the page's blobs.    *)
(* On an error it returns 0, err; the goroutine logs and returns, which    *)
(* leaves the deferred wg.Done() to run.                                   *)
BlobFetch(listing, w) ==
    IF NextPageFails(listing, w.fetched)
    THEN [w EXCEPT !.err = TRUE, !.pc = "exit"]
    ELSE [w EXCEPT !.totalSize = SumPage(@, listing.pages[w.fetched + 1]),
                   !.fetched = @ + 1,
                   !.pc = "more"]

WorkerNextPage(a, c) ==
    /\ Running
    /\ workers[a][c].pc = "next"
    /\ LET w == BlobFetch(accounts[a].blobs[c], workers[a][c]) IN
          /\ workers' = [workers EXCEPT ![a][c] = w]
          /\ log' = IF w.err THEN log \cup {Line("container", a, c, 0)} ELSE log
    /\ UNCHANGED <<accounts, startup, mainPc, acct, subscriptionID, pass, out>>

(* A buffer that is one slot short of the number of containers. *)
CapacityShort(p) == Len(p.containerList) - 1

(* results := make(chan ContainerSize, len(containerList)) *)
Capacity(p) == Len(p.containerList)

(* results <- ContainerSize{...}: blocks while the buffer of               *)
(* len(containerList) slots is full; a send on a closed channel panics.    *)
WorkerSend(a, c) ==
    /\ Running
    /\ workers[a][c].pc = "send"
    /\ IF pass[a].closed
       THEN /\ mainPc' = "panic"
            /\ UNCHANGED <<pass, workers>>
       ELSE /\ Len(pass[a].results) < Capacity(pass[a])
            /\ pass' = [pass EXCEPT ![a].results =
                           Append(@, ContainerSize(c, workers[a][c].totalSize))]
            /\ workers' = [workers EXCEPT ![a][c].pc = "exit"]
            /\ mainPc' = mainPc
    /\ UNCHANGED <<accounts, startup, acct, subscriptionID, out, log>>

(* defer wg.Done(), the last step of the goroutine *)
WorkerDone(a, c) ==
    /\ Running
    /\ workers[a][c].pc = "exit"
    /\ workers' = [workers EXCEPT ![a][c].pc = "done"]
    /\ pass' = [pass EXCEPT ![a].wg = @ - 1]
    /\ UNCHANGED <<accounts, startup, mainPc, acct, subscriptionID, out, log>>

----------------------------------------------------------------------------
(* processAccount: collecting *)

(* totalSize = result.Size, an assignment in place of the addition *)
AccumulateLast(total, result) == result.Size

(* totalSize += result.Size *)
Accumulate(total, result) == Add64(total, result.Size)

(* A loop that ends as soon as the channel is empty, closed or not. *)
RangeEndsWhenEmpty(p) == p.results = << >>

(* The range over the channel ends once it is closed and drained. *)
RangeEnds(p) == p.results = << >> /\ p.closed

(* for result := range results: one iteration, or the end of the loop. *)
Receive ==
    /\ mainPc = "recv"
    /\ LET p == pass[acct] IN
       IF p.results # << >>
       THEN /\ out' = Append(out, Line("container", acct,
                                       Head(p.results).Name, Head(p.results).Size))
            /\ pass' = [pass EXCEPT ![acct].results = Tail(@),
                                    ![acct].totalSize =
                                        Accumulate(@, Head(p.results))]
            /\ mainPc' = mainPc
       ELSE /\ RangeEnds(p)
            /\ mainPc' = "total"
            /\ UNCHANGED <<pass, out>>
    /\ UNCHANGED <<accounts, startup, acct, subscriptionID, workers, log>>

(* fmt.Printf("Total size for account ...") and the return *)
PrintTotal ==
    /\ mainPc = "total"
    /\ out' = Append(out, Line("total", acct, 0, pass[acct].totalSize))
    /\ mainPc' = "println"
    /\ UNCHANGED <<accounts, startup, acct, subscriptionID, pass, workers, log>>

----------------------------------------------------------------------------
Next ==
    \/ ParseFlags
    \/ ObtainCredential
    \/ SelectSubscription
    \/ LoopNext
    \/ NewClient
    \/ ListMore
    \/ ListNextPage
    \/ Spawn
    \/ StartCloser
    \/ Receive
    \/ PrintTotal
    \/ Println
    \/ \E a \in 1..Len(accounts) : CloserWait(a)
    \/ \E a \in 1..Len(accounts) : CloserClose(a)
    \/ \E a \in 1..Len(accounts) : \E c \in DOMAIN workers[a] : WorkerMore(a, c)
    \/ \E a \in 1..Len(accounts) : \E c \in DOMAIN workers[a] : WorkerNextPage(a, c)
    \/ \E a \in 1..Len(accounts) : \E c \in DOMAIN workers[a] : WorkerSend(a, c)
    \/ \E a \in 1..Len(accounts) : \E c \in DOMAIN workers[a] : WorkerDone(a, c)

Spec == Init /\ [][Next]_vars

SpecRun == InitRun /\ [][Next]_vars

(* The Go scheduler: while some goroutine can take a step, one is taken. *)
FairSpec == Init /\ [][Next]_vars /\ WF_vars(Next)

----------------------------------------------------------------------------
(* What the properties speak of *)

Accts == 1..Len(accounts)

Lines(k, a) == SelectSeq(out, LAMBDA l : l.k = k /\ l.a = a)

(* The breakdown of an account: its container lines, as printed. *)
Breakdown(a) == Lines("container", a)

BreakdownEntries(a) ==
    {<<Breakdown(a)[i].n, Breakdown(a)[i].s>> : i \in 1..Len(Breakdown(a))}

BreakdownNames(a) == {Breakdown(a)[i].n : i \in 1..Len(Breakdown(a))}

HasTotal(a) == Lines("total", a) # << >>

Total(a) == Lines("total", a)[1].s

(* The containers whose getContainerSize call returned without an error. *)
Succeeded(a) ==
    {c \in DOMAIN workers[a] :
        workers[a][c].pc \in {"send", "exit", "done"} /\ ~workers[a][c].err}

Failed(a) == {c \in DOMAIN workers[a] : workers[a][c].err}

(* The sum of f over S, in the integers. *)
RECURSIVE SumOver(_, _)
SumOver(S, f) ==
    IF S = {} THEN 0
    ELSE LET x == CHOOSE y \in S : TRUE IN f[x] + SumOver(S \ {x}, f)

RECURSIVE SumSeq(_)
SumSeq(q) == IF q = << >> THEN 0 ELSE Head(q) + SumSeq(Tail(q))

(* The ContainerSize.Size a container's goroutine computed. *)
SizeOf(a) == [c \in DOMAIN workers[a] |-> workers[a][c].totalSize]

(* The content lengths of a container, over all pages of its listing. *)
LengthsOf(a, c) == Flatten(accounts[a].blobs[c].pages)

ListingFailed(a) == Line("list", a, 0, 0) \in log

ClientFailed(a) == Line("client", a, 0, 0) \in log

(* processAccount has returned for account a. *)
Returned(a) == a < acct \/ (a = acct /\ mainPc \in {"println", "loop", "exit"})

----------------------------------------------------------------------------
(* C1: the account total reported is the sum of ContainerSize.Size over    *)
(* exactly the containers whose calculation succeeded, and the breakdown   *)
(* holds exactly those containers.                                         *)
C1_TotalIsSumOfSucceeded ==
    \A a \in Accts :
        HasTotal(a) =>
            /\ Total(a) = SumOver(Succeeded(a), SizeOf(a))
            /\ BreakdownNames(a) = Succeeded(a)
            /\ Len(Breakdown(a)) = Cardinality(Succeeded(a))

(* C2: the total is emitted, and processAccount returns, only when every   *)
(* goroutine launched for the account has run its wg.Done(); none is still *)
(* paging or holding a result it has not sent.                             *)
C2_TotalAfterAllWorkers ==
    \A a \in Accts :
        (HasTotal(a) \/ Returned(a) \/ (a = acct /\ mainPc = "total")) =>
            /\ DOMAIN workers[a] = BreakdownNames(a) \cup Failed(a)
                                     \cup {r.Name : r \in
                                             {pass[a].results[i] :
                                                i \in 1..Len(pass[a].results)}}
            /\ \A c \in DOMAIN workers[a] : workers[a][c].pc = "done"
            /\ Len(pass[a].containerList) = Cardinality(DOMAIN workers[a])

C2_Witness ==
    /\ Len(accounts) = 1
    /\ HasTotal(1)
    /\ Cardinality(Succeeded(1)) = 1
    /\ Cardinality(Failed(1)) = 1

(* C3: a container whose blob listing had a failing page fetch yields no   *)
(* ContainerSize: nothing of it is in the results channel, in the          *)
(* breakdown or in the account total, whatever had been summed before the  *)
(* failure.                                                                *)
C3_NoPartialResult ==
    \A a \in Accts : \A c \in DOMAIN workers[a] :
        workers[a][c].err =>
            /\ \A i \in 1..Len(pass[a].results) : pass[a].results[i].Name # c
            /\ c \notin BreakdownNames(a)
            /\ workers[a][c].pc \in {"exit", "done"}
            /\ pass[a].totalSize =
                   Wrap64(SumSeq([i \in 1..Len(Breakdown(a)) |-> Breakdown(a)[i].s]))

C3_Witness ==
    /\ Len(accounts) = 1
    /\ HasTotal(1)
    /\ \E c \in DOMAIN workers[1] :
          /\ workers[1][c].err
          /\ workers[1][c].fetched > 0
          /\ workers[1][c].totalSize > 0
    /\ Total(1) = 0

(* C4: without a failing fetch getContainerSize returns the arithmetic sum *)
(* of all content lengths of the container, wherever the page boundaries   *)
(* fall.                                                                   *)
C4_SizeIsArithmeticSum ==
    \A a \in Accts : \A c \in Succeeded(a) :
        workers[a][c].totalSize = SumSeq(LengthsOf(a, c))

(* The size of a container is what the backend lists for it, and nothing   *)
(* else: the int64 sum of its content lengths if no fetch fails.           *)
ExpectedSizes(a) ==
    [c \in {d \in 1..Len(Flatten(accounts[a].listing.pages)) :
               ~accounts[a].blobs[d].fails}
        |-> Wrap64(SumSeq(LengthsOf(a, c)))]

(* C5: total and breakdown entries are a function of what the backend      *)
(* answers, not of the interleaving: the total is the int64 sum of the     *)
(* expected sizes and the breakdown holds each expected entry once.        *)
C5_TotalIndependentOfOrder ==
    \A a \in Accts :
        HasTotal(a) =>
            /\ Total(a) = Wrap64(SumOver(DOMAIN ExpectedSizes(a), ExpectedSizes(a)))
            /\ BreakdownEntries(a) =
                   {<<c, ExpectedSizes(a)[c]>> : c \in DOMAIN ExpectedSizes(a)}
            /\ Len(Breakdown(a)) = Cardinality(DOMAIN ExpectedSizes(a))

(* Two containers of different sizes, collected second before first. *)
C5_Witness ==
    /\ Len(accounts) = 1
    /\ HasTotal(1)
    /\ Len(Breakdown(1)) = 2
    /\ Breakdown(1)[1].n = 2
    /\ Breakdown(1)[1].s # Breakdown(1)[2].s

(* C6: when a goroutine of the account fails, every sibling whose fetches  *)
(* all succeed still has its ContainerSize in the breakdown and in the     *)
(* total once the total is reported.                                       *)
C6_FailureDoesNotCancelSiblings ==
    \A a \in Accts :
        (HasTotal(a) /\ Failed(a) # {}) =>
            /\ \A c \in DOMAIN ExpectedSizes(a) :
                  \E i \in 1..Len(Breakdown(a)) :
                      Breakdown(a)[i].n = c /\ Breakdown(a)[i].s = ExpectedSizes(a)[c]
            /\ Total(a) = Wrap64(SumOver(DOMAIN ExpectedSizes(a), ExpectedSizes(a)))

(* One goroutine failed on its first fetch, its sibling fetched two pages  *)
(* and is in the breakdown with what it summed.                            *)
C6_Witness ==
    /\ Len(accounts) = 1
    /\ HasTotal(1)
    /\ \E c, d \in DOMAIN workers[1] :
          /\ workers[1][c].err /\ workers[1][c].fetched = 0
          /\ ~workers[1][d].err /\ workers[1][d].fetched = 2
          /\ workers[1][d].totalSize > 0
          /\ <<d, workers[1][d].totalSize>> \in BreakdownEntries(1)
          /\ Total(1) = workers[1][d].totalSize

(* C7: if a fetch of the container listing fails, on the first page or     *)
(* later, no goroutine is launched for the account and no ContainerSize is *)
(* produced; the names read before the failure are not used.               *)
C7_ListFailureLaunchesNothing ==
    \A a \in Accts :
        (~accounts[a].clientErr /\ accounts[a].listing.fails) =>
            /\ workers[a] = << >>
            /\ pass[a].containerList = << >>
            /\ pass[a].results = << >>
            /\ pass[a].wg = 0
            /\ Breakdown(a) = << >>

C7_Witness ==
    /\ Len(accounts) = 1
    /\ ListingFailed(1)
    /\ Returned(1)
    /\ pass[1].containers # << >>

(* C8: when listing the account's containers fails, the report still has a *)
(* total line with value 0 for the account.                                *)
C8_ListFailureReportsZeroTotal ==
    \A a \in Accts :
        (ListingFailed(a) /\ Returned(a)) => (HasTotal(a) /\ Total(a) = 0)

(* An account whose client could not be built or whose container listing   *)
(* failed. *)
AccountFailed(a) == ClientFailed(a) \/ ListingFailed(a)

(* The lines of the report that open and close the section of account a. *)
Processed(a) == Lines("processing", a) # << >> /\ Lines("blank", a) # << >>

(* C9: a failure to build an account's client or to list its containers    *)
(* ends that account's pass only: the run is not in a fatal state because  *)
(* of it, and when main is through, every account after the failing one    *)
(* has been processed.                                                     *)
C9_AccountFailureIsLocal ==
    /\ mainPc = "fatal" => acct = 0
    /\ mainPc # "panic"
    /\ \A a \in Accts :
          AccountFailed(a) =>
              /\ a = acct => mainPc \in {"println", "loop", "exit"}
              /\ mainPc = "exit" =>
                    \A b \in (a + 1)..Len(accounts) :
                        Processed(b) /\ (AccountFailed(b) \/ HasTotal(b))

(* The first of two accounts failed, the second got its total. *)
C9_Witness ==
    /\ Len(accounts) = 2
    /\ AccountFailed(1)
    /\ ~AccountFailed(2)
    /\ HasTotal(2)
    /\ Breakdown(2) # << >>
    /\ mainPc = "exit"

(* C10: accounts are processed one at a time in input order: nothing of an *)
(* account after the current one has started, every goroutine of an        *)
(* earlier account is done and that account's pass is over, and the lines  *)
(* of the report are in the order of the accounts.                         *)
C10_AccountsInOrder ==
    /\ \A a \in Accts :
          /\ a > acct => pass[a] = NewPass /\ workers[a] = << >>
                            /\ \A i \in 1..Len(out) : out[i].a # a
          /\ a < acct =>
                /\ \A c \in DOMAIN workers[a] : workers[a][c].pc = "done"
                /\ pass[a].closer \in {"none", "done"}
                /\ pass[a].results = << >>
                /\ pass[a].closer = "done" => HasTotal(a)
                /\ Processed(a)
    /\ \A i, j \in 1..Len(out) : i < j => out[i].a <= out[j].a
    /\ \A i \in 1..Len(out) :
          out[i].k = "total" => /\ i < Len(out) => out[i + 1].k = "blank"
                                /\ \A j \in (i + 1)..Len(out) :
                                      ~(out[j].k = "container" /\ out[j].a = out[i].a)

(* The second account has a goroutine running after the first account's    *)
(* goroutine was collected and its total printed.                          *)
C10_Witness ==
    /\ Len(accounts) = 2
    /\ acct = 2
    /\ Breakdown(1) # << >>
    /\ HasTotal(1)
    /\ \E c \in DOMAIN workers[2] : workers[2][c].pc = "next"

(* An account whose container listing succeeds and names no container. *)
NoContainers(a) ==
    /\ ~accounts[a].clientErr
    /\ ~accounts[a].listing.fails
    /\ Flatten(accounts[a].listing.pages) = << >>

(* The lines of the report that belong to account a, in order. *)
Section(a) == SelectSeq(out, LAMBDA l : l.a = a)

(* The section of an account with a total of 0 and an empty breakdown. *)
EmptySection(a) ==
    <<Line("processing", a, 0, 0), Line("total", a, 0, 0), Line("blank", a, 0, 0)>>

(* C11: an account with zero containers gets no goroutine, an empty        *)
(* breakdown and a total of 0, and its pass does not get stuck waiting on  *)
(* the results channel; when main is through, each such account has its    *)
(* section of the report with total 0 and no container line.               *)
C11_ZeroContainers ==
    \A a \in Accts :
        NoContainers(a) =>
            /\ workers[a] = << >>
            /\ pass[a].wg = 0
            /\ pass[a].results = << >>
            /\ Breakdown(a) = << >>
            /\ HasTotal(a) => Total(a) = 0
            /\ (a = acct /\ mainPc \in {"spawn", "closer", "recv", "total"}) =>
                   ENABLED Next
            /\ mainPc = "exit" => Section(a) = EmptySection(a)

(* Two accounts without containers, both reported. *)
C11_Witness ==
    /\ Len(accounts) = 2
    /\ NoContainers(1) /\ NoContainers(2)
    /\ mainPc = "exit"
    /\ Section(1) = EmptySection(1)
    /\ Section(2) = EmptySection(2)

(* The containers the backend lists for account a. *)
Listed(a) ==
    {Flatten(accounts[a].listing.pages)[i] :
        i \in 1..Len(Flatten(accounts[a].listing.pages))}

(* How many results for container c are in the channel of account a. *)
InChannel(a, c) == Len(SelectSeq(pass[a].results, LAMBDA r : r.Name = c))

(* How many breakdown entries container c has in the report of account a. *)
Printed(a, c) == Len(SelectSeq(Breakdown(a), LAMBDA l : l.n = c))

(* C12: in every interleaving a container whose size calculation succeeded *)
(* has exactly one ContainerSize result, which is either still in the      *)
(* channel or printed as its one breakdown entry, and has that entry when  *)
(* the total is printed; any other container has neither.                  *)
C12_OneResultPerContainer ==
    \A a \in Accts :
        /\ \A c \in Listed(a) \cup BreakdownNames(a) :
               InChannel(a, c) + Printed(a, c) =
                   IF /\ c \in Succeeded(a)
                      /\ workers[a][c].pc \in {"exit", "done"}
                   THEN 1 ELSE 0
        /\ \A i \in 1..Len(pass[a].results) :
               pass[a].results[i].Name \in Listed(a)
        /\ HasTotal(a) =>
               /\ \A c \in Succeeded(a) : Printed(a, c) = 1
               /\ Len(Breakdown(a)) = Cardinality(Succeeded(a))

(* Two containers both succeeded: one entry each, total printed. *)
C12_Witness ==
    /\ Len(accounts) = 1
    /\ Succeeded(1) = {1, 2}
    /\ HasTotal(1)
    /\ Printed(1, 1) = 1 /\ Printed(1, 2) = 1

(* An account whose listing names containers and whose every size          *)
(* calculation fails.                                                      *)
AllContainersFail(a) ==
    /\ ~accounts[a].clientErr
    /\ ~accounts[a].listing.fails
    /\ Listed(a) # {}
    /\ \A c \in Listed(a) : accounts[a].blobs[c].fails

(* C13: the report of an account whose containers all fail is the report   *)
(* of an account without containers: both are the section with no          *)
(* container line and a total of 0, so the output does not tell them       *)
(* apart.                                                                  *)
C13_AllFailedLooksEmpty ==
    \A a \in Accts :
        (NoContainers(a) \/ AllContainersFail(a)) =>
            /\ Breakdown(a) = << >>
            /\ HasTotal(a) => Total(a) = 0
            /\ Lines("blank", a) # << >> => Section(a) = EmptySection(a)

(* Two containers, both failed after a page that was added up, and the     *)
(* section printed.                                                        *)
C13_Witness ==
    /\ Len(accounts) = 1
    /\ AllContainersFail(1)
    /\ Failed(1) = {1, 2}
    /\ \E c \in Failed(1) : workers[1][c].fetched > 0
    /\ Section(1) = EmptySection(1)

(* C14: sizes are never negative: the running sum of every goroutine,      *)
(* every ContainerSize in the channel, every size in the breakdown, and    *)
(* the running and the printed total of every account are at least 0.      *)
C14_SizeNeverNegative ==
    \A a \in Accts :
        /\ \A c \in DOMAIN workers[a] : workers[a][c].totalSize >= 0
        /\ \A i \in 1..Len(pass[a].results) : pass[a].results[i].Size >= 0
        /\ \A i \in 1..Len(Breakdown(a)) : Breakdown(a)[i].s >= 0
        /\ pass[a].totalSize >= 0
        /\ HasTotal(a) => Total(a) >= 0

(* The start-up errors that are fatal: no accounts flag, no credential, a  *)
(* selection that is no number or is outside 1..n.                         *)
FatalStartup ==
    \/ accounts = << >>
    \/ startup.credErr
    \/ startup.scanErr
    \/ startup.choice \notin 1..startup.n

(* C15: with a fatal start-up error main never reaches the loop over the   *)
(* accounts: no account is started, no client is built, no container is    *)
(* listed, no goroutine is launched, nothing about an account is printed   *)
(* or logged, and the run ends in the fatal exit.                          *)
C15_FatalStartupAborts ==
    FatalStartup =>
        /\ mainPc \in {"flags", "cred", "sub", "fatal"}
        /\ acct = 0
        /\ subscriptionID = 0
        /\ \A a \in Accts : pass[a] = NewPass /\ workers[a] = << >>
        /\ \A i \in 1..Len(out) : out[i].a = 0 /\ out[i].k # "using"
        /\ \A l \in log : l.k \in {"no accounts", "credentials", "subscription"}
        /\ ~ENABLED Next => mainPc = "fatal"

(* A selection of 1 when no subscription is listed, with an account given  *)
(* and a credential obtained: the run has aborted.                         *)
C15_Witness ==
    /\ accounts # << >>
    /\ ~startup.credErr /\ ~startup.listErr /\ ~startup.scanErr
    /\ startup.n = 0 /\ startup.choice = 1
    /\ mainPc = "fatal"
    /\ Line("prompt", 0, 0, 0) \in {out[i] : i \in 1..Len(out)}

(* The pager of a listing has something left to fetch after n pages. *)
Unfetched(listing, n) ==
    n < Len(listing.pages) \/ (n = Len(listing.pages) /\ listing.fails)

(* The protocol as the states show it: a fetch is about to be issued only  *)
(* where the pager has more, no pager is asked for more pages than it has, *)
(* and a sequence whose fetch failed is left for good.                     *)
PagerStates ==
    \A a \in Accts :
        /\ (a = acct /\ mainPc = "next") =>
               Unfetched(accounts[a].listing, pass[a].fetched)
        /\ pass[a].fetched <= Len(accounts[a].listing.pages)
        /\ ListingFailed(a) =>
               /\ pass[a].fetched = Len(accounts[a].listing.pages)
               /\ a = acct => mainPc \notin {"more", "next"}
        /\ \A c \in DOMAIN workers[a] :
               LET w == workers[a][c] IN
               /\ w.pc = "next" => Unfetched(accounts[a].blobs[c], w.fetched)
               /\ w.fetched <= Len(accounts[a].blobs[c].pages)
               /\ w.err => /\ w.fetched = Len(accounts[a].blobs[c].pages)
                           /\ w.pc \in {"exit", "done"}

(* The protocol as the steps show it: a fetch is reached from the check of *)
(* More and from nowhere else, it takes the one next page, that page is    *)
(* consumed whole in the same step, and the check comes again before       *)
(* another fetch.                                                          *)
PagerSteps ==
    \A a \in Accts :
        /\ (mainPc' = "next" /\ mainPc # "next") => mainPc = "more"
        /\ pass'[a].fetched # pass[a].fetched =>
               /\ a = acct /\ mainPc = "next" /\ mainPc' = "more"
               /\ pass'[a].fetched = pass[a].fetched + 1
               /\ pass'[a].containers =
                      pass[a].containers
                          \o accounts[a].listing.pages[pass[a].fetched + 1]
        /\ \A c \in DOMAIN workers[a] :
               LET w == workers[a][c]
                   v == workers'[a][c] IN
               /\ (v.pc = "next" /\ w.pc # "next") => w.pc = "more"
               /\ v.fetched # w.fetched =>
                      /\ w.pc = "next" /\ v.pc = "more"
                      /\ v.fetched = w.fetched + 1
                      /\ v.totalSize =
                             SumPage(w.totalSize,
                                     accounts[a].blobs[c].pages[w.fetched + 1])

(* C16: listContainers and getContainerSize keep to the pager protocol:    *)
(* NextPage is called only after More was checked and was true, every page *)
(* is consumed before the next call, no page is fetched twice, and nothing *)
(* is fetched after a fetch that failed.                                   *)
C16_PagerProtocol == []PagerStates /\ [][PagerSteps]_vars

(* A container listing of two pages fetched to its end, and a goroutine    *)
(* that fetched a page and then met a failing fetch.                       *)
C16_Witness ==
    /\ Len(accounts) = 1
    /\ pass[1].fetched >= 1
    /\ ~More(accounts[1].listing, pass[1].fetched)
    /\ \E c \in DOMAIN workers[1] :
           workers[1][c].err /\ workers[1][c].fetched >= 1
    /\ \E c \in DOMAIN workers[1] :
           ~workers[1][c].err /\ workers[1][c].fetched = 2 /\ workers[1][c].pc = "done"

(* The goroutines of account a that have not yet sent or failed. *)
Pending(a) ==
    {c \in DOMAIN workers[a] : workers[a][c].pc \in {"more", "next", "send"}}

(* C17: the results channel never holds more than len(containerList)       *)
(* values, with room left for every goroutine that may still send, so a    *)
(* goroutine that is at its send can always take the step: it never blocks *)
(* and never finds the channel closed.                                     *)
C17_SendNeverBlocks ==
    \A a \in Accts :
        /\ Len(pass[a].results) <= Len(pass[a].containerList)
        /\ Len(pass[a].results) + Cardinality(Pending(a))
               <= Len(pass[a].containerList)
        /\ \A c \in DOMAIN workers[a] :
               (Running /\ workers[a][c].pc = "send") =>
                   /\ ~pass[a].closed
                   /\ ENABLED WorkerSend(a, c)

(* The channel is full: both goroutines have sent before main received. *)
C17_Witness ==
    /\ Len(accounts) = 1
    /\ Len(pass[1].containerList) = 2
    /\ Len(pass[1].results) = 2
    /\ \A c \in DOMAIN workers[1] : workers[1][c].pc \in {"exit", "done"}

(* The range loop of account a has ended. *)
LoopEnded(a) ==
    /\ pass[a].closer # "none"
    /\ a < acct \/ (a = acct /\ mainPc \in {"total", "println", "loop", "exit"})

(* The channel as the states show it: no close of a closed channel and no  *)
(* send on one (either would panic), the channel is closed only with every *)
(* goroutine of the account through its wg.Done(), and the loop ends only  *)
(* on a closed and drained channel, with every result in the breakdown.    *)
ChannelStates ==
    /\ mainPc # "panic"
    /\ \A a \in Accts :
           /\ pass[a].closed <=> pass[a].closer = "done"
           /\ pass[a].closed =>
                  /\ \A c \in DOMAIN workers[a] : workers[a][c].pc = "done"
                  /\ Cardinality(DOMAIN workers[a]) = Len(pass[a].containerList)
                  /\ pass[a].wg = 0
           /\ LoopEnded(a) =>
                  /\ pass[a].closed
                  /\ pass[a].results = << >>
                  /\ BreakdownNames(a) = Succeeded(a)

(* The channel as the steps show it: it is closed by the closer's one      *)
(* close, stays closed, the closer does not come back, and a closed        *)
(* channel only loses values, to the range loop.                           *)
ChannelSteps ==
    \A a \in Accts :
        /\ (pass'[a].closed /\ ~pass[a].closed) => pass[a].closer = "close"
        /\ pass[a].closed => pass'[a].closed
        /\ pass[a].closer = "done" => pass'[a].closer = "done"
        /\ pass[a].closed =>
               \/ pass'[a].results = pass[a].results
               \/ /\ pass'[a].results = Tail(pass[a].results)
                  /\ out' = Append(out, Line("container", a,
                                             Head(pass[a].results).Name,
                                             Head(pass[a].results).Size))

(* C18: the results channel is closed exactly once and only after every    *)
(* goroutine of the account has terminated, nothing is sent after the      *)
(* close, and every result sent before the close is received before the    *)
(* range loop ends.                                                        *)
C18_ClosedOnceAfterWorkers == []ChannelStates /\ [][ChannelSteps]_vars

(* The channel is closed with both results still in it, main receiving. *)
C18_Witness ==
    /\ Len(accounts) = 1
    /\ pass[1].closed
    /\ Len(pass[1].results) = 2
    /\ mainPc = "recv"

(* C19: under a fair scheduler, with finite listings and fetches that      *)
(* return, the run comes to its end, which main reaches only after         *)
(* processAccount has returned: whatever the number of containers and      *)
(* whichever of them fail, no goroutine is left waiting for another.       *)
C19_ProcessAccountTerminates == <>(mainPc \in {"exit", "fatal"})

(* processAccount has returned after one goroutine failed and one sent,    *)
(* each after its last fetch.                                              *)
C19_Witness ==
    /\ Len(accounts) = 1
    /\ mainPc = "println"
    /\ Cardinality(Failed(1)) = 1
    /\ Cardinality(Succeeded(1)) = 1
    /\ \A c \in DOMAIN workers[1] : workers[1][c].pc = "done"
    /\ pass[1].closed

====
